---------------------------- MODULE Spec2Model ----------------------------
(***************************************************************************)
(* yuleq.c: a looping A/B player.  The model follows the one source file:  *)
(* main() loads the files, starts the PortAudio stream and then polls the  *)
(* keyboard, while the stream's thread calls process() concurrently.  The  *)
(* two threads share the fields of `player` without any lock, so process() *)
(* and the key handlers are split at every access to a field the other     *)
(* thread writes or reads.                                                  *)
(*                                                                         *)
(* Positions and lengths are in frames.  Every buffer offset in the source *)
(* is a frame offset times the channel count, which is the same for all    *)
(* tracks of a session, so buffers are indexed by frame here.  A sample is *)
(* not a float but the list of the frames it was computed from: the frame  *)
(* memcpy put there, followed by one entry per apply_window() laid over    *)
(* it.  Slot k of a window is weighted with win[k].                        *)
(***************************************************************************)
EXTENDS Integers, Sequences, FiniteSets, TLC

VARIABLES
    arg,        \* struct arg: files, device_rate, blind, refblind (after
                \* parse_args)
    tracks,     \* tracks[]: one record per loaded file
    player,     \* struct player
    n,          \* frames per call of process(); 0 until the stream is opened
    out,        \* the output buffer of the call of process() in progress
    cbPc,       \* where the stream's thread is inside process()
    cbPos,      \* process(): the value start + n computed for line 251
    mainPc,     \* where main() is
    tmp,        \* main(): player.pos as read for 's' / 'd', before it is stored;
                \* in shuffle_tracks, its loop index i
    exitCode,   \* the process's exit status, -1 while it is alive
    terminal,   \* "cooked" or "raw" (init_terminal / restore_terminal)
    during,     \* history: which of "next", "loop" (start or end) main() or the
                \* signal handler changed while the call in progress ran
    calls,      \* history: calls of process() completed, -1 once a key or
                \* signal changed player, or after MaxCalls calls
    pausedPos   \* history: player.pos at the first of the paused calls since
                \* the last call that was not paused, -1 if there is none

vars ==
    <<arg, tracks, player, n, out, cbPc, cbPos, mainPc, tmp, exitCode, terminal,
      during, calls, pausedPos>>

---------------------------------------------------------------------------
(* Program constants *)

MAX_TRACKS == 10
MAX_LENGTH == 600
STEP == 50
LATENCY == 20

(* Bounds of the model *)

\* the sample rate ffprobe reports for the files of a session
SampleRate == 50
\* decoded length in frames of the file of the one-track session: five
\* buffers, as 1000 frames are at 200 frames a call
RefLength == 5 * ((20 * SampleRate) \div 1000)
\* decoded length of the first (reference) file of the two-track session
FirstLength == 2
\* decoded length of its second file, shorter than the reference
ShortLength == 1
\* the user presses 's' and 'd' only while the position is at most this
\* many frames beyond the reference length
MaxBeyond == 0
\* completed calls of process() that are counted
MaxCalls == 6
\* rand() returns 0 .. RAND_MAX
RAND_MAX == 7
\* the largest number of files in the sessions that are shuffled
MaxShuffled == 4

---------------------------------------------------------------------------
(* Helpers *)

min(a, b) == IF a < b THEN a ELSE b

max(a, b) == IF a > b THEN a ELSE b

\* LATENCY * samplerate / 1000: the cross-fade window, and the frames per
\* buffer asked of PortAudio
Samples(sr) == (LATENCY * sr) \div 1000

\* STEP * samplerate / 1000
Step(sr) == (STEP * sr) \div 1000

\* what ffprobe and ffmpeg report for one input file: channels and sample
\* rate, the text of the stream's duration (<<d>> for d tenths of a second
\* printed as a decimal number, << >> for "N/A" or no such line), and the
\* frames ffmpeg decodes
File(name, chans, rate, dur, frames) ==
    [name |-> name, channels |-> chans, samplerate |-> rate,
     duration |-> dur, frames |-> frames]

\* the duration ffprobe prints for a file of so many frames
Tenths(frames, rate) == <<(10 * frames) \div rate>>

\* grep_int(b.buf, "streams.stream.0.duration=\""): atoi reads the digits up
\* to the decimal point, and gives 0 for a text that is no number
grep_int(dur) == IF dur = << >> THEN 0 ELSE dur[1] \div 10

\* load_track: the PANICs of lines 364-371
load_track_ok(f) ==
    /\ ~(f.channels = 0 \/ f.samplerate = 0)
    /\ ~(grep_int(f.duration) > MAX_LENGTH)

\* load_track: the track read from file f; buf is the number of frames
\* allocated for pcm, zero the number of frames from frame `length` on that
\* have been set to 0
load_track(f) ==
    [name |-> f.name, channels |-> f.channels, samplerate |-> f.samplerate,
     length |-> f.frames, buf |-> f.frames, zero |-> 0]

\* lines 419-422: `samples`, the frames of padding
PadSamples(tlen, plen, sr) ==
    Samples(sr) + (IF tlen < plen THEN plen - tlen ELSE 0)

\* faulty variant: a short track is not filled up to the reference length
PaddedFramesWindowOnly(tlen, plen, sr) == tlen + Samples(sr)

\* the padding step of load_tracks: frames in the buffer after realloc
PaddedFrames(tlen, plen, sr) == tlen + PadSamples(tlen, plen, sr)

\* load_tracks: the loop over arg.files from index i on; ts are the tracks
\* loaded so far, p the player.  ok is FALSE when a PANIC ended the loop.
RECURSIVE LoadFrom(_, _, _, _)
LoadFrom(a, i, ts, p) ==
    IF i > Len(a.files) THEN [ok |-> TRUE, tracks |-> ts, player |-> p]
    ELSE IF ~load_track_ok(a.files[i])
    THEN [ok |-> FALSE, tracks |-> ts, player |-> p]
    ELSE LET t  == load_track(a.files[i])
             t0 == IF i = 1 THEN t ELSE ts[1]
         IN IF t.channels # t0.channels \/ t.samplerate # t0.samplerate
            THEN [ok |-> FALSE, tracks |-> ts, player |-> p]
            ELSE LET p1 == IF i = 1
                           THEN [p EXCEPT !.length = t.length,
                                          !.channels = t.channels,
                                          !.samplerate =
                                              IF a.device_rate # 0
                                              THEN a.device_rate
                                              ELSE t.samplerate]
                           ELSE p
                     t1 == [t EXCEPT
                               !.buf = PaddedFrames(t.length, p1.length,
                                                    p1.samplerate),
                               !.zero = PadSamples(t.length, p1.length,
                                                   p1.samplerate)]
                 IN LoadFrom(a, i + 1, Append(ts, t1), p1)

\* one frame of a track's buffer, as read by memcpy or apply_window
Src(op, t, f) == [op |-> op, track |-> t, frame |-> f]

\* memcpy(out, in, n * ch * sizeof(float)) with in = tracks[t].pcm + p * ch
Memcpy(t, p, cnt) == [k \in 1..cnt |-> <<Src("copy", t, p + k - 1)>>]

\* memset(out, 0, n * ch * sizeof(float))
Memset(cnt) == [k \in 1..cnt |-> << >>]

\* faulty variant: the fade runs over the whole buffer, not over the window
apply_window_all(o, op, t, p, w) ==
    [k \in 1..Len(o) |-> Append(o[k], Src(op, t, p + k - 1))]

\* apply_window(out, in) with in = tracks[t].pcm + p * ch: the first
\* `Samples` slots become win*out + (1-win)*in.  (The model only calls it
\* with a window no longer than the buffer.)
apply_window(o, op, t, p, w) ==
    [k \in 1..Len(o) |->
        IF k <= w THEN Append(o[k], Src(op, t, p + k - 1)) ELSE o[k]]

\* a read of `cnt` frames of track t from frame p on stays in its buffer
InBuffer(t, p, cnt) == p >= 0 /\ p + cnt <= tracks[t].buf

---------------------------------------------------------------------------
(* Inputs *)

\* a file of `frames` frames of one channel at SampleRate
Mono(name, frames) ==
    File(name, 1, SampleRate, Tenths(frames, SampleRate), frames)

OneTrack == <<Mono(1, RefLength)>>

TwoTracks == <<Mono(1, FirstLength), Mono(2, ShortLength)>>

\* sessions load_tracks refuses: no file, a file without audio, a second
\* file without a sample rate, a file of MAX_LENGTH + 1 seconds, a second
\* file with another channel count, a second file with another sample rate
BadFiles ==
    { << >>,
      <<File(1, 0, 0, << >>, 0)>>,
      <<Mono(1, FirstLength), File(2, 1, 0, << >>, 0)>>,
      <<Mono(1, (MAX_LENGTH + 1) * SampleRate)>>,
      <<Mono(1, FirstLength),
        File(2, 2, SampleRate, Tenths(FirstLength, SampleRate), FirstLength)>>,
      <<Mono(1, FirstLength),
        File(2, 1, 2 * SampleRate, Tenths(FirstLength, 2 * SampleRate),
             FirstLength)>> }

\* two files of one buffer each, for the sessions played blind
BlindTracks == <<Mono(1, Samples(SampleRate)), Mono(2, Samples(SampleRate))>>

\* struct arg after parse_args: the files, and the flags -b and -r
Session(fs, blind, refblind) ==
    [files |-> fs, device_rate |-> 0, blind |-> blind, refblind |-> refblind]

Args ==
    { Session(fs, FALSE, FALSE) : fs \in {OneTrack, TwoTracks} \cup BadFiles }
    \cup { Session(BlindTracks, TRUE, FALSE) }

Player0 ==
    [track |-> 0, next |-> 0, pos |-> 0, start |-> 0, end |-> 0, length |-> 0,
     channels |-> 0, samplerate |-> 0, running |-> FALSE, paused |-> FALSE]

\* the state after parse_args, for a session drawn from `args`; process()
\* will be called with a frame count drawn from `counts`, 0 standing for
\* the count start_stream asks PortAudio for
InitWith(args, counts) ==
    /\ arg \in args
    /\ tracks = << >>
    /\ player = Player0
    /\ n \in counts
    /\ out = << >>
    /\ cbPc = "idle"
    /\ cbPos = 0
    /\ mainPc = "load"
    /\ tmp = 0
    /\ exitCode = -1
    /\ terminal = "cooked"
    /\ during = {}
    /\ calls = 0
    /\ pausedPos = -1

Init == InitWith(Args, {0})

\* exit(code), a return from main or a fatal signal: the process and its
\* memory are gone; the terminal keeps its mode
Exits(pc, code) ==
    /\ mainPc' = pc
    /\ exitCode' = code
    /\ tracks' = << >>
    /\ player' = Player0
    /\ out' = << >>
    /\ cbPc' = "idle"
    /\ cbPos' = 0
    /\ tmp' = 0
    /\ during' = {}
    /\ calls' = -1
    /\ pausedPos' = -1
    /\ UNCHANGED <<arg, n, terminal>>

---------------------------------------------------------------------------
(* main(), before the loop *)

Loaded == LoadFrom(arg, 1, << >>, player)

\* load_tracks() fails: PANIC prints and exits with status 1
LoadPanic ==
    /\ mainPc = "load"
    /\ Len(arg.files) = 0 \/ ~Loaded.ok
    /\ Exits("exited", 1)

\* load_tracks() succeeds; lines 572-574 and 434: with -b or -r on to
\* shuffle_tracks(arg.refblind), whose loop starts at i = (int)skip_first
LoadTracks ==
    /\ mainPc = "load"
    /\ Len(arg.files) > 0 /\ Loaded.ok
    /\ tracks' = Loaded.tracks
    /\ player' = Loaded.player
    /\ mainPc' = IF arg.blind \/ arg.refblind THEN "shuffle" ELSE "start"
    /\ tmp' = IF arg.refblind THEN 1 ELSE 0
    /\ UNCHANGED <<arg, n, out, cbPc, cbPos, exitCode, terminal, during, calls, pausedPos>>

\* line 435: (int)(rand() / (RAND_MAX + 1.0) * k) for rand() = r
Offset(r, k) == (r * k) \div (RAND_MAX + 1)

\* faulty variant: the index is drawn from the whole list, not from i on
DrawIndexNaive(i, r, cnt) == Offset(r, cnt)

\* line 435: j for rand() = r, at index i of cnt tracks
DrawIndex(i, r, cnt) == i + Offset(r, cnt - i)

\* faulty variant: tracks[i] is overwritten before it is saved
SwapLost(ts, i, j) == [ts EXCEPT ![i + 1] = ts[j + 1]]

\* lines 436-438: swap tracks[i] and tracks[j] (indices from 0)
Swap(ts, i, j) == [ts EXCEPT ![i + 1] = ts[j + 1], ![j + 1] = ts[i + 1]]

\* the indices j line 435 can yield at index i of cnt tracks
Targets(i, cnt) == { DrawIndex(i, r, cnt) : r \in 0..RAND_MAX }

\* lines 434-439: one round of the loop of shuffle_tracks
ShuffleStep ==
    /\ mainPc = "shuffle"
    /\ tmp < Len(tracks) - 1
    /\ \E r \in 0..RAND_MAX :
           tracks' = Swap(tracks, tmp, DrawIndex(tmp, r, Len(tracks)))
    /\ tmp' = tmp + 1
    /\ UNCHANGED <<arg, player, n, out, cbPc, cbPos, mainPc, exitCode, terminal,
                   during, calls, pausedPos>>

\* line 434: i < n - 1 fails, shuffle_tracks returns
ShuffleDone ==
    /\ mainPc = "shuffle"
    /\ ~(tmp < Len(tracks) - 1)
    /\ mainPc' = "start"
    /\ tmp' = 0
    /\ UNCHANGED <<arg, tracks, player, n, out, cbPc, cbPos, exitCode, terminal,
                   during, calls, pausedPos>>

\* gen_window(); start_stream(); init_terminal(); signal(SIGINT, ...).
\* PortAudio is asked for Samples frames per buffer and calls process()
\* with that count; a nonzero n in the initial state stands for a caller
\* that passes its own count.
StartStream ==
    /\ mainPc = "start"
    /\ player' = [player EXCEPT !.end = player.length, !.running = TRUE]
    /\ n' = IF n = 0 THEN Samples(player.samplerate) ELSE n
    /\ terminal' = "raw"
    /\ mainPc' = "test"
    /\ UNCHANGED <<arg, tracks, out, cbPc, cbPos, tmp, exitCode, during, calls, pausedPos>>

\* the stream runs from Pa_StartStream until the process ends
StreamActive ==
    mainPc \in {"test", "poll", "store_s", "store_d", "restore", "return"}


---------------------------------------------------------------------------
(* process(), the stream's callback.  Its thread runs whenever the stream  *)
(* is active.  Each action is one access to a field the other thread also  *)
(* uses; the return is part of the last such access, except after the      *)
(* memset of a paused call, whose buffer is a state of its own.            *)

\* the cross-fade window of apply_window / gen_window, in frames
Window == Samples(player.samplerate)

cbVars == <<arg, tracks, n, mainPc, tmp, exitCode, terminal>>

\* history: one more call of process() has completed
Counted == IF calls >= 0 /\ calls < MaxCalls THEN calls + 1 ELSE -1

\* faulty variant: the paused call advances pos as a playing one does
CbPausedAdvancing ==
    /\ StreamActive /\ cbPc = "idle"
    /\ player.paused
    /\ out' = Memset(n)
    /\ player' = [player EXCEPT !.pos = player.pos + n]
    /\ cbPc' = "silent"
    /\ during' = {}
    /\ pausedPos' = IF pausedPos < 0 THEN player.pos ELSE pausedPos
    /\ UNCHANGED <<cbPos, calls>>
    /\ UNCHANGED cbVars

\* lines 232-233: paused, so silence
CbPaused ==
    /\ StreamActive /\ cbPc = "idle"
    /\ player.paused
    /\ out' = Memset(n)
    /\ cbPc' = "silent"
    /\ during' = {}
    /\ pausedPos' = IF pausedPos < 0 THEN player.pos ELSE pausedPos
    /\ UNCHANGED <<player, cbPos, calls>>
    /\ UNCHANGED cbVars

\* line 234: return paContinue
CbPausedReturn ==
    /\ StreamActive /\ cbPc = "silent"
    /\ out' = << >>
    /\ cbPc' = "idle"
    /\ during' = {}
    /\ calls' = -1
    /\ UNCHANGED <<player, cbPos, pausedPos>>
    /\ UNCHANGED cbVars

\* lines 229, 237: not paused, so copy n frames of the current track at pos
CbCopy ==
    /\ StreamActive /\ cbPc = "idle"
    /\ ~player.paused
    /\ out' = Memcpy(player.track, player.pos, n)
    /\ cbPc' = "check"
    /\ during' = {}
    /\ UNCHANGED <<player, cbPos, calls, pausedPos>>
    /\ UNCHANGED cbVars

\* line 240: is a switch armed?
CbCheckSwitch ==
    /\ StreamActive /\ cbPc = "check"
    /\ cbPc' = IF player.track # player.next THEN "blend" ELSE "advance"
    /\ pausedPos' = -1
    /\ UNCHANGED <<player, out, cbPos, during, calls>>
    /\ UNCHANGED cbVars

\* lines 241-242: fade to the track `next` names now, at pos
CbSwitchBlend ==
    /\ StreamActive /\ cbPc = "blend"
    /\ out' = apply_window(out, "switch", player.next, player.pos, Window)
    /\ cbPc' = "commit"
    /\ UNCHANGED <<player, cbPos, during, calls, pausedPos>>
    /\ UNCHANGED cbVars

\* faulty variant: line 243 left out: the fade is made, the track is not committed
CbSwitchCommitLost ==
    /\ StreamActive /\ cbPc = "commit"
    /\ cbPc' = "advance"
    /\ UNCHANGED <<player, out, cbPos, during, calls, pausedPos>>
    /\ UNCHANGED cbVars

\* faulty variant: line 243 commits the track read for the fade, not the
\* one `next` names now
CbSwitchCommitBlended ==
    /\ StreamActive /\ cbPc = "commit"
    /\ player' = [player EXCEPT !.track = out[1][2].track]
    /\ cbPc' = "advance"
    /\ UNCHANGED <<out, cbPos, during, calls, pausedPos>>
    /\ UNCHANGED cbVars

\* line 243: track = next, with the value `next` has now
CbSwitchCommit ==
    /\ StreamActive /\ cbPc = "commit"
    /\ player' = [player EXCEPT !.track = player.next]
    /\ cbPc' = "advance"
    /\ UNCHANGED <<out, cbPos, during, calls, pausedPos>>
    /\ UNCHANGED cbVars

\* line 246: pos += n
CbAdvance ==
    /\ StreamActive /\ cbPc = "advance"
    /\ player' = [player EXCEPT !.pos = player.pos + n]
    /\ cbPc' = "checkEnd"
    /\ UNCHANGED <<out, cbPos, during, calls, pausedPos>>
    /\ UNCHANGED cbVars

\* line 248: past the loop end, so on to the wrap
CbCheckEndWrap ==
    /\ StreamActive /\ cbPc = "checkEnd"
    /\ player.pos > player.end
    /\ cbPc' = "wrapBlend"
    /\ UNCHANGED <<player, out, cbPos, during, calls, pausedPos>>
    /\ UNCHANGED cbVars

\* lines 248, 254: not past the loop end, so return
CbCheckEndReturn ==
    /\ StreamActive /\ cbPc = "checkEnd"
    /\ ~(player.pos > player.end)
    /\ cbPc' = "idle"
    /\ out' = << >>
    /\ during' = {}
    /\ calls' = Counted
    /\ UNCHANGED <<player, cbPos, pausedPos>>
    /\ UNCHANGED cbVars

\* faulty variant: the loop fade reads the track the call started with
CbWrapBlendOld ==
    /\ StreamActive /\ cbPc = "wrapBlend"
    /\ out' = apply_window(out, "wrap", out[1][1].track, player.start, Window)
    /\ cbPc' = "wrapRead"
    /\ UNCHANGED <<player, cbPos, during, calls, pausedPos>>
    /\ UNCHANGED cbVars

\* lines 249-250: fade to the current track at start
CbWrapBlend ==
    /\ StreamActive /\ cbPc = "wrapBlend"
    /\ out' = apply_window(out, "wrap", player.track, player.start, Window)
    /\ cbPc' = "wrapRead"
    /\ UNCHANGED <<player, cbPos, during, calls, pausedPos>>
    /\ UNCHANGED cbVars

\* faulty variant: line 251 as pos = start: the wrapped frames are played twice
CbWrapReadNoSkip ==
    /\ StreamActive /\ cbPc = "wrapRead"
    /\ cbPos' = player.start
    /\ cbPc' = "wrapWrite"
    /\ UNCHANGED <<player, out, during, calls, pausedPos>>
    /\ UNCHANGED cbVars

\* line 251, right-hand side: start + n
CbWrapRead ==
    /\ StreamActive /\ cbPc = "wrapRead"
    /\ cbPos' = player.start + n
    /\ cbPc' = "wrapWrite"
    /\ UNCHANGED <<player, out, during, calls, pausedPos>>
    /\ UNCHANGED cbVars

\* faulty variant: line 251 left out: the loop fade is made, pos is not reset
CbWrapWriteLost ==
    /\ StreamActive /\ cbPc = "wrapWrite"
    /\ cbPc' = "idle"
    /\ cbPos' = 0
    /\ out' = << >>
    /\ during' = {}
    /\ calls' = Counted
    /\ UNCHANGED <<player, pausedPos>>
    /\ UNCHANGED cbVars

\* lines 251, 254: the store to pos, and return
CbWrapWrite ==
    /\ StreamActive /\ cbPc = "wrapWrite"
    /\ player' = [player EXCEPT !.pos = cbPos]
    /\ cbPc' = "idle"
    /\ cbPos' = 0
    /\ out' = << >>
    /\ during' = {}
    /\ calls' = Counted
    /\ UNCHANGED pausedPos
    /\ UNCHANGED cbVars

\* A read past the end of a track's buffer is undefined: it may yield any
\* value (the actions above) or end the process with a fault.
SegFault ==
    /\ StreamActive
    /\ \/ cbPc = "idle" /\ ~player.paused
          /\ ~InBuffer(player.track + 1, player.pos, n)
       \/ cbPc = "blend" /\ ~InBuffer(player.next + 1, player.pos, Window)
       \/ cbPc = "wrapBlend" /\ ~InBuffer(player.track + 1, player.start, Window)
    /\ Exits("crashed", 139)

process ==
    \/ CbPaused \/ CbPausedReturn \/ CbCopy \/ CbCheckSwitch \/ CbSwitchBlend
    \/ CbSwitchCommit \/ CbAdvance \/ CbCheckEndWrap \/ CbCheckEndReturn
    \/ CbWrapBlend \/ CbWrapRead \/ CbWrapWrite

---------------------------------------------------------------------------
(* main(), the control loop, and the signal handler *)

keyVars == <<arg, tracks, n, out, cbPc, cbPos, exitCode, terminal, pausedPos>>

step == Step(player.samplerate)

\* history: what a store of p to player changes
Changed(p) ==
    (IF p.next # player.next THEN {"next"} ELSE {})
    \cup (IF p.start # player.start \/ p.end # player.end THEN {"loop"} ELSE {})

\* history: the store of p to player, seen from the call in progress
Noted(p) ==
    /\ during' = IF cbPc = "idle" THEN during ELSE during \cup Changed(p)
    /\ calls' = IF p # player THEN -1 ELSE calls

\* line 588: while (player.running)
TestRunning ==
    /\ mainPc = "test"
    /\ mainPc' = IF player.running THEN "poll" ELSE "restore"
    /\ UNCHANGED <<player, tmp, during, calls>>
    /\ UNCHANGED keyVars

\* a key handler that is one store to player
Handle(p) ==
    /\ mainPc = "poll"
    /\ player' = p
    /\ Noted(p)
    /\ mainPc' = "test"
    /\ UNCHANGED tmp
    /\ UNCHANGED keyVars

\* read_key() timed out, or a key without a case
KeyNone == Handle(player)

\* ' '
KeyPause == Handle([player EXCEPT !.paused = ~player.paused])

\* lines 595-609: the track `next` gets for the digit with character code c
\* faulty variant: '0' is not moved to the tenth slot
DigitNextNoZero(c, nx, num_files) ==
    IF c - 48 <= num_files THEN c - 48 - 1 ELSE nx

\* lines 595-609: the value of player.next after the digit key c
DigitNext(c, nx, num_files) ==
    LET c1 == IF c = 48 THEN c + 10 ELSE c
    IN IF c1 - 48 <= num_files THEN c1 - 48 - 1 ELSE nx

\* '0' .. '9'
KeyDigit(c) ==
    Handle([player EXCEPT !.next = DigitNext(c, player.next, Len(arg.files))])

\* 'c': clear end
KeyClearEnd == Handle([player EXCEPT !.end = player.length])

\* 'i': dec start
KeyDecStart == Handle([player EXCEPT !.start = max(player.start - step, 0)])

\* 'k': dec end
KeyDecEnd == Handle([player EXCEPT !.end = max(player.end - step, player.start)])

\* 'l': inc end
KeyIncEnd == Handle([player EXCEPT !.end = min(player.end + step, player.length)])

\* faulty variant: 'o' without the clamp to end
KeyIncStartUnclamped == Handle([player EXCEPT !.start = player.start + step])

\* 'o': inc start
KeyIncStart == Handle([player EXCEPT !.start = min(player.start + step, player.end)])

\* 'q': quit
KeyQuit == Handle([player EXCEPT !.running = FALSE])

\* faulty variant: 'x' also rewinds the playback position
KeyClearStartRewind == Handle([player EXCEPT !.start = 0, !.pos = 0])

\* 'x': clear start
KeyClearStart == Handle([player EXCEPT !.start = 0])

\* the load of player.pos in player.end = player.pos and player.start =
\* player.pos; the user presses these keys only near the track (MaxBeyond)
LoadPos(pc) ==
    /\ mainPc = "poll"
    /\ player.pos <= player.length + MaxBeyond
    /\ tmp' = player.pos
    /\ mainPc' = pc
    /\ UNCHANGED <<player, during, calls>>
    /\ UNCHANGED keyVars

\* the store of the position read
StorePos(pc, p) ==
    /\ mainPc = pc
    /\ player' = p
    /\ Noted(p)
    /\ tmp' = 0
    /\ mainPc' = "test"
    /\ UNCHANGED keyVars

\* 'd': set end
KeySetEnd == LoadPos("store_d")

StoreEnd == StorePos("store_d", [player EXCEPT !.end = tmp])

\* 's': set start
KeySetStart == LoadPos("store_s")

StoreStart == StorePos("store_s", [player EXCEPT !.start = tmp])

Digits == 48..57

Key ==
    \/ KeyNone \/ KeyPause \/ (\E c \in Digits : KeyDigit(c))
    \/ KeyClearEnd \/ KeySetEnd \/ StoreEnd \/ KeyDecStart \/ KeyDecEnd
    \/ KeyIncEnd \/ KeyIncStart \/ KeyQuit \/ KeySetStart \/ StoreStart
    \/ KeyClearStart

\* signal_handler: SIGINT, any time after signal() installed it
signal_handler ==
    /\ StreamActive
    /\ player.running
    /\ player' = [player EXCEPT !.running = FALSE]
    /\ calls' = -1
    /\ UNCHANGED <<arg, tracks, n, out, cbPc, cbPos, mainPc, tmp, exitCode,
                   terminal, during, pausedPos>>

\* line 642: restore_terminal()
RestoreTerminal ==
    /\ mainPc = "restore"
    /\ terminal' = "cooked"
    /\ mainPc' = "return"
    /\ UNCHANGED <<arg, tracks, player, n, out, cbPc, cbPos, tmp, exitCode,
                   during, calls, pausedPos>>

\* lines 643-646: main returns, which ends the process and its stream
Return ==
    /\ mainPc = "return"
    /\ Exits("exited", 0)

---------------------------------------------------------------------------

Next ==
    \/ LoadPanic \/ LoadTracks \/ ShuffleStep \/ ShuffleDone \/ StartStream
    \/ process \/ SegFault
    \/ TestRunning \/ Key \/ signal_handler \/ RestoreTerminal \/ Return

Spec == Init /\ [][Next]_vars

\* The two-track session, the session played blind and one that load_tracks
\* refuses, with the stream's thread calling process() again and again
\* while the stream runs.
ArgsLive ==
    { Session(fs, FALSE, FALSE) : fs \in {TwoTracks, << >>} }
    \cup { Session(BlindTracks, TRUE, FALSE) }

InitLive == InitWith(ArgsLive, {0})

LiveSpec == InitLive /\ [][Next]_vars /\ WF_vars(process)

\* process() takes its frame count from its caller.  Here the caller of the
\* two-track session passes one window or two windows of frames, as in the
\* spec's scenarios (a window of 80 frames, calls of 200).
FrameCounts == { Samples(SampleRate), 2 * Samples(SampleRate) }

InitN == InitWith(ArgsLive, FrameCounts)

SpecN == InitN /\ [][Next]_vars

\* load_tracks and shuffle_tracks on their own: sessions of up to
\* MaxShuffled files of one format, the second longer and the third shorter
\* than the first, with -b, -r, both or neither, the sessions that
\* load_tracks refuses and sessions of one long file, followed from
\* load_tracks to the return of shuffle_tracks.
ShuffledFiles(cnt) == [i \in 1..cnt |-> Mono(i, ShortLength + (i % 3))]

\* files of more than MAX_LENGTH seconds: one whose stream duration ffprobe
\* prints as "N/A", as it does for Matroska and WebM, and one that is half a
\* second over
LongFiles ==
    { <<File(1, 1, SampleRate, << >>, (MAX_LENGTH + 1) * SampleRate)>>,
      <<Mono(1, MAX_LENGTH * SampleRate + SampleRate \div 2)>> }

ArgsShuffle ==
    { Session(ShuffledFiles(cnt), b, r) :
          cnt \in 1..MaxShuffled, b \in BOOLEAN, r \in BOOLEAN }
    \cup { Session(fs, FALSE, FALSE) : fs \in BadFiles \cup LongFiles }

InitShuffle == InitWith(ArgsShuffle, {0})

NextShuffle == LoadPanic \/ LoadTracks \/ ShuffleStep \/ ShuffleDone

ShuffleSpec == InitShuffle /\ [][NextShuffle]_vars

---------------------------------------------------------------------------
(* Properties *)

\* the process is alive
Alive == mainPc \notin {"exited", "crashed"}

\* C1: between two calls of process(), 0 <= start <= pos <= end <= length.
C1_Claim ==
    (StreamActive /\ cbPc = "idle") =>
        /\ 0 <= player.start
        /\ player.start <= player.pos
        /\ player.pos <= player.end
        /\ player.end <= player.length

\* C2: the loop-editing keys leave start <= end.
C2_Claim == StreamActive => player.start <= player.end

\* C3: every frame process() reads lies inside the buffer of its track.
C3_Claim ==
    \A k \in 1..Len(out) : \A j \in 1..Len(out[k]) :
        /\ out[k][j].frame >= 0
        /\ out[k][j].frame < tracks[out[k][j].track + 1].buf

\* the first w slots of buffer o hold the fade from track a to track b,
\* both read from frame p on
SwitchFade(o, a, b, p, w) ==
    \A k \in 1..w :
        /\ Len(o[k]) >= 2
        /\ o[k][1] = Src("copy", a, p + k - 1)
        /\ o[k][2] = Src("switch", b, p + k - 1)

\* C4: a step that changes the current track of the running player commits
\* the very track the call in progress has faded to, read at the position
\* the outgoing track was read at.
C4_Claim ==
    [][(Alive' /\ StreamActive /\ player'.track # player.track) =>
          /\ Len(out) = n
          /\ SwitchFade(out, player.track, player'.track, player.pos, Window)]_vars

\* a switch is armed
Armed == player.track # player.next

\* a step with which a call of process() that was not paused returns
Returns ==
    /\ Alive'
    /\ cbPc \in {"checkEnd", "wrapWrite"}
    /\ cbPc' = "idle"

\* C5: a call of process() that is not paused, and during which no key
\* changes next, returns with track = next; and with process() called again
\* and again, a switch armed while the player is not paused is consumed,
\* unless the player is paused or the process ends first.
C5_Consumed ==
    /\ [][(Returns /\ "next" \notin during) => player'.track = player'.next]_vars
    /\ (StreamActive /\ ~player.paused /\ Armed)
           ~> (~Armed \/ player.paused \/ ~Alive)

\* a call has faded from one track to another, committed it, and no key
\* changed next meanwhile
C5_Witness ==
    /\ cbPc = "advance"
    /\ "next" \notin during
    /\ Len(out[1]) = 2
    /\ out[1][1].track # player.track
    /\ out[1][2].track = player.track
    /\ player.track = player.next

\* C6: a call of process() that finds paused set fills its n frames with
\* silence and returns with player as it was; and the first call that is not
\* paused after paused ones copies from the position of the first paused
\* call.
C6_Paused ==
    [][/\ (Alive' /\ StreamActive /\ cbPc = "idle" /\ cbPc' # "idle"
              /\ player.paused) =>
             /\ cbPc' = "silent"
             /\ Len(out') = n
             /\ \A k \in 1..n : out'[k] = << >>
             /\ player' = player
       /\ (Alive' /\ cbPc = "silent" /\ cbPc' = "idle") => player' = player
       /\ (Alive' /\ cbPc = "idle" /\ cbPc' = "check" /\ pausedPos >= 0) =>
             \A k \in 1..n :
                 out'[k] = <<Src("copy", player.track, pausedPos + k - 1)>>
      ]_vars

\* playback was paused at a position beyond the first frame, and the call
\* after the pause has copied from there
C6_Witness ==
    /\ cbPc = "check"
    /\ pausedPos > 0
    /\ out[1] = <<Src("copy", player.track, pausedPos)>>

\* the position the call in progress copied from
EntryPos == out[1][1].frame

\* the call in progress has laid a loop fade over its buffer
HasWrap == \E k \in 1..Len(out) : \E j \in 1..Len(out[k]) : out[k][j].op = "wrap"

\* C7: a call of process() that is not paused advances pos by n.  If no key
\* changes start or end during the call: when the advanced pos exceeds end,
\* the n frames of the buffer are faded to the current track from start on
\* and the call returns with pos = start + n; otherwise it returns with pos
\* advanced by n and no loop fade.  In the session of five buffers, with no
\* key pressed, pos is c * n after c <= 5 calls and the sixth call wraps.
C7_LoopWrap ==
    /\ [][/\ (Alive' /\ cbPc = "advance" /\ cbPc' = "checkEnd") =>
                player'.pos = player.pos + n
          /\ (Returns /\ cbPc = "checkEnd" /\ "loop" \notin during) =>
                /\ player'.pos = EntryPos + n
                /\ ~(EntryPos + n > player.end)
                /\ ~HasWrap
          /\ (Returns /\ cbPc = "wrapWrite" /\ "loop" \notin during) =>
                /\ EntryPos + n > player.end
                /\ player'.pos = player.start + n
                /\ \A k \in 1..n :
                       out[k][Len(out[k])] =
                           Src("wrap", player.track, player.start + k - 1)
         ]_vars
    /\ [](StreamActive /\ cbPc = "idle" /\ calls >= 0 /\ player.length = 5 * n =>
             /\ calls <= 5 => player.pos = calls * n
             /\ calls = 6 => player.pos = n)

\* five buffers played, and the sixth call has wrapped to the start
C7_Witness ==
    /\ StreamActive /\ cbPc = "idle"
    /\ player.length = 5 * n
    /\ calls = 6
    /\ player.pos = n

\* the call in progress has faded to another track and committed it, and no
\* key changed next meanwhile
Switched ==
    /\ cbPc = "advance"
    /\ "next" \notin during
    /\ Len(out) = n
    /\ Len(out[1]) = 2

Slot(c) == IF c = 48 THEN 10 ELSE c - 48

\* C9: a digit key arms next = slot - 1 exactly when the slot is at most the
\* number of loaded tracks, otherwise leaves next alone, and never writes
\* track (for every track count up to MAX_TRACKS); next and track are
\* indices of loaded tracks whenever the stream runs.
C9_Digit ==
    /\ [][\A c \in Digits :
            KeyDigit(c) =>
                /\ player'.next = IF Slot(c) <= Len(tracks)
                                  THEN Slot(c) - 1 ELSE player.next
                /\ player'.track = player.track]_vars
    /\ \A c \in Digits : \A nf \in 1..MAX_TRACKS : \A nx \in 0..(nf - 1) :
            /\ DigitNext(c, nx, nf) = IF Slot(c) <= nf THEN Slot(c) - 1 ELSE nx
            /\ DigitNext(c, nx, nf) \in 0..(nf - 1)
    /\ [](StreamActive =>
            /\ player.track \in 0..(Len(tracks) - 1)
            /\ player.next \in 0..(Len(tracks) - 1))

\* key '2' has armed the second track while the first one plays
C9_Witness ==
    /\ StreamActive
    /\ mainPc = "test"
    /\ Len(tracks) = 2
    /\ player.track = 0
    /\ player.next = 1

\* C10 as claimed: once running is false the loop takes no further poll, no
\* call of process() starts after the loop is left, and the terminal is
\* restored when main returns.
C10_Claim ==
    [][/\ (mainPc = "test" /\ ~player.running) => mainPc' # "poll"
       /\ (mainPc \in {"restore", "return"} /\ cbPc = "idle") => cbPc' = "idle"
       /\ (mainPc = "return" /\ mainPc' = "exited") => terminal' = "cooked"]_vars

\* the fields of player the key loop and the signal handler store to
ControlFields ==
    <<player.next, player.start, player.end, player.paused, player.running>>

\* the fields of player process() stores to
CallbackFields == <<player.pos, player.track>>

\* C11: while the stream runs, a step of process() leaves next, start, end,
\* paused and running alone, and a step of the key loop or of the signal
\* handler leaves pos and track alone; so pos and track change only in steps
\* of the callback's thread, the other five only in steps outside it.
C11_Writers ==
    [][(StreamActive /\ Alive') =>
          /\ process => UNCHANGED ControlFields
          /\ (TestRunning \/ Key \/ signal_handler \/ RestoreTerminal) =>
                UNCHANGED CallbackFields
          /\ CallbackFields' # CallbackFields => (cbPc' # cbPc /\ mainPc' = mainPc)
          /\ ControlFields' # ControlFields => (cbPc' = cbPc /\ out' = out)]_vars

\* both threads have stored to player: the callback has switched to the
\* second track and moved on, the key loop has moved the loop start
C11_Witness ==
    /\ StreamActive
    /\ player.track = 1
    /\ player.pos > 0
    /\ player.start > 0
    /\ player.paused

\* C12 as claimed: a call of process() that is not paused, starts while
\* start <= pos <= end does not hold, and runs with no key changing start or
\* end, returns with start <= pos <= end.
C12_Claim ==
    [][(/\ Returns
        /\ "loop" \notin during
        /\ ~(player.start <= EntryPos /\ EntryPos <= player.end)) =>
          /\ player'.start <= player'.pos
          /\ player'.pos <= player'.end]_vars

\* the tracks of sequence ts
Range(ts) == { ts[k] : k \in 1..Len(ts) }

\* qs holds the tracks of ts, each once
IsPermutation(qs, ts) ==
    /\ Len(qs) = Len(ts)
    /\ Range(qs) = Range(ts)
    /\ \A k, m \in 1..Len(qs) : qs[k] = qs[m] => k = m

\* load_tracks has returned and the process is alive
TracksLoaded == Alive /\ mainPc # "load"

\* C13: whatever rand() returns, during and after shuffle_tracks the list
\* holds every loaded track exactly once, every index drawn lies in the
\* list, and with -r (skip_first) no step moves the track at index 0.
C13_Permutation ==
    /\ [](TracksLoaded => IsPermutation(tracks, Loaded.tracks))
    /\ []((mainPc = "shuffle" /\ tmp < Len(tracks) - 1) =>
             \A r \in 0..RAND_MAX :
                 /\ DrawIndex(tmp, r, Len(tracks)) >= tmp
                 /\ DrawIndex(tmp, r, Len(tracks)) < Len(tracks))
    /\ [][(TracksLoaded /\ TracksLoaded' /\ arg.refblind) =>
              tracks'[1] = tracks[1]]_vars

\* shuffle_tracks(true) has returned with the last two of four tracks
\* exchanged and the first in place
C13_Witness ==
    /\ mainPc = "start"
    /\ arg.refblind
    /\ Len(tracks) = 4
    /\ tracks[1] = Loaded.tracks[1]
    /\ tracks[3] = Loaded.tracks[4]
    /\ tracks[4] = Loaded.tracks[3]

\* 0 <= start <= end <= length
LoopInTrack(p) == 0 <= p.start /\ p.start <= p.end /\ p.end <= p.length

\* the step of a key that only sets start to s
SetsStart(s) == player' = [player EXCEPT !.start = s] /\ LoopInTrack(player')

\* the step of a key that only sets end to e
SetsEnd(e) == player' = [player EXCEPT !.end = e] /\ LoopInTrack(player')

\* C14: pressed while 0 <= start <= end <= length, 'x' sets start to 0, 'c'
\* end to length, 'i' start to start - step but not below 0, 'o' start to
\* start + step but not above end, 'k' end to end - step but not below
\* start, 'l' end to end + step but not above length; each leaves every
\* other field of player alone, and 0 <= start <= end <= length still holds.
C14_Clamped ==
    [][(step >= 0 /\ LoopInTrack(player)) =>
          /\ KeyClearStart => SetsStart(0)
          /\ KeyClearEnd => SetsEnd(player.length)
          /\ KeyDecStart =>
                SetsStart(IF player.start - step < 0 THEN 0
                          ELSE player.start - step)
          /\ KeyIncStart =>
                SetsStart(IF player.start + step > player.end THEN player.end
                          ELSE player.start + step)
          /\ KeyDecEnd =>
                SetsEnd(IF player.end - step < player.start THEN player.start
                        ELSE player.end - step)
          /\ KeyIncEnd =>
                SetsEnd(IF player.end + step > player.length THEN player.length
                        ELSE player.end + step)]_vars

\* before the first call of process(): 'o' twice has moved start by two
\* steps, and 'k' has moved end down to start, less than a step
C14_Witness ==
    /\ StreamActive
    /\ player.pos = 0
    /\ player.start = 2 * step
    /\ player.end = player.start
    /\ player.end > player.length - step
    /\ player.end < player.length

\* the call in progress found a switch armed and has faded to another track
HasSwitch == Len(out[1]) >= 2 /\ out[1][2].op = "switch"

\* C15: a call of process() that is not paused, finds a switch armed and
\* advances pos beyond end, with no key changing next, start or end during
\* it, makes both fades before it returns, the switch fade first: each frame
\* of the window is the outgoing track at pos, faded to the new track at
\* pos, and that faded to the new track at start; it returns with
\* track = next and pos = start + n.
C15_SwitchThenWrap ==
    [][(Returns /\ during = {} /\ HasSwitch /\ EntryPos + n > player.end) =>
          /\ cbPc = "wrapWrite"
          /\ out[1][1].track # player.track
          /\ \A k \in 1..Window :
                 out[k] = << Src("copy", out[1][1].track, EntryPos + k - 1),
                             Src("switch", player.track, EntryPos + k - 1),
                             Src("wrap", player.track, player.start + k - 1) >>
          /\ player'.track = player'.next
          /\ player'.pos = player.start + n]_vars

\* a call has faded from the first track to the second and then to the loop
\* start, with no key pressed meanwhile, and is about to return
C15_Witness ==
    /\ cbPc = "wrapWrite"
    /\ during = {}
    /\ HasSwitch
    /\ Len(out[1]) = 3
    /\ out[1][1].track = 0
    /\ player.track = 1

\* C16: once load_tracks has returned, the buffer of every track holds at
\* least the first file's length plus one window of frames, and every frame
\* of it from the track's decoded length on has been set to zero, for tracks
\* shorter than, as long as and longer than the first.
C16_Padded ==
    TracksLoaded =>
        /\ player.length = arg.files[1].frames
        /\ \A k \in 1..Len(tracks) :
               /\ tracks[k].buf >= player.length + Window
               /\ tracks[k].buf >= tracks[k].length + Window
               /\ tracks[k].zero = tracks[k].buf - tracks[k].length

\* loaded: a track shorter than the first file, one as long, one longer
C16_Witness ==
    /\ TracksLoaded
    /\ \E a, b, c \in 1..Len(tracks) :
           /\ tracks[a].length < player.length
           /\ tracks[b].length = player.length
           /\ tracks[c].length > player.length
           /\ tracks[a].buf = player.length + Window
           /\ tracks[c].buf > player.length + Window

\* file f holds more than MAX_LENGTH seconds of audio
TooLong(f) == f.frames > MAX_LENGTH * f.samplerate

\* file f is one the session must not be played with, f0 being the first
Unfit(f, f0) ==
    \/ f.channels = 0 \/ f.samplerate = 0
    \/ TooLong(f)
    \/ f.channels # f0.channels \/ f.samplerate # f0.samplerate

\* some file of the session is unfit
SomeUnfit == \E k \in 1..Len(arg.files) : Unfit(arg.files[k], arg.files[1])

\* C17 as claimed: with a file of no channels or no sample rate, of more
\* than MAX_LENGTH seconds, or of another channel count or sample rate than
\* the first, load_tracks does not return: the process exits with status 1,
\* the stream never opened; with files that differ in length only, the
\* process never exits with status 1.
C17_Claim ==
    /\ SomeUnfit =>
          \/ mainPc = "load"
          \/ mainPc = "exited" /\ exitCode = 1 /\ n = 0 /\ terminal = "cooked"
    /\ (Len(arg.files) > 0 /\ ~SomeUnfit) => exitCode # 1

\* the arrangements of ts that keep its first `first` tracks in place
Arrangements(ts, first) ==
    { q \in [1..Len(ts) -> Range(ts)] :
          /\ \A k, m \in 1..Len(ts) : q[k] = q[m] => k = m
          /\ \A k \in 1..first : q[k] = ts[k] }

\* the lists shuffle_tracks can end with when its loop is at index i of the
\* list ts, one entry for every sequence of indices j drawn from there on
RECURSIVE Outcomes(_, _), OutcomesOver(_, _, _)
Outcomes(ts, i) ==
    IF i < Len(ts) - 1 THEN OutcomesOver(ts, i, 0) ELSE <<ts>>

\* the entries of Outcomes(ts, i) for the draws of index j or a higher one
OutcomesOver(ts, i, j) ==
    IF j >= Len(ts) THEN << >>
    ELSE (IF j \in Targets(i, Len(ts))
          THEN Outcomes(Swap(ts, i, j), i + 1) ELSE << >>)
         \o OutcomesOver(ts, i, j + 1)

\* C18: at every round of the loop of shuffle_tracks, the indices j that
\* rand() can yield are i .. n-1, and the sequences of indices drawn from
\* there on lead to every arrangement of tracks i .. n-1, each sequence to
\* another one; so from the first round on, every permutation of the tracks
\* from skip_first on is produced by exactly one sequence of draws.
C18_Bijection ==
    mainPc = "shuffle" =>
        /\ tmp < Len(tracks) - 1 => Targets(tmp, Len(tracks)) = tmp..(Len(tracks) - 1)
        /\ \A outs \in {Outcomes(tracks, tmp)} :
               /\ Range(outs) = Arrangements(tracks, tmp)
               /\ \A k, m \in 1..Len(outs) : outs[k] = outs[m] => k = m

\* shuffle_tracks(false) has returned with four tracks in reverse order
C18_Witness ==
    /\ mainPc = "start"
    /\ arg.blind /\ ~arg.refblind
    /\ Len(tracks) = 4
    /\ \A k \in 1..4 : tracks[k] = Loaded.tracks[5 - k]

\* the player is running and not paused
Playing == StreamActive /\ player.running /\ ~player.paused

\* C19: a call of process() during which no key changes start or end
\* returns with pos at most end or, after a wrap, start + n; and with
\* process() called again and again, if from some time on the player is
\* running and not paused and no key or signal changes a field of player,
\* then process() wraps (stores pos = start + n) again and again.
C19_Loop ==
    /\ [][(Returns /\ "loop" \notin during) =>
             player'.pos <= max(player.end, player.start + n)]_vars
    /\ (<>[][UNCHANGED ControlFields]_vars /\ <>[]Playing)
           => []<>(cbPc = "wrapWrite")

\* four calls of process() have returned with no key pressed since the
\* stream started, one of them after a wrap, and the next one wraps
C19_Witness ==
    /\ Playing
    /\ calls >= 4
    /\ cbPc = "wrapWrite"
    /\ player.pos > player.end

\* C20: while the stream runs, track changes only in the step of line 243 of
\* a call of process() in progress, and to the value next holds at that
\* step; between two calls, whatever digit keys are pressed, track stays as
\* it is, so of the tracks armed there only the one armed last, which next
\* still holds when the call runs, can become the current one.
C20_LastArmed ==
    [][(StreamActive /\ Alive') =>
          /\ player'.track # player.track =>
                /\ cbPc = "commit" /\ cbPc' = "advance"
                /\ player'.track = player.next
                /\ player'.next = player.next
          /\ (cbPc = "idle" /\ cbPc' = "idle") => player'.track = player.track]_vars

\* the second track was made current, then '1' was pressed, and a call during
\* which no key was pressed has gone back to the first track
C20_Witness ==
    /\ cbPc = "advance"
    /\ during = {}
    /\ HasSwitch
    /\ out[1][1].track = 1
    /\ player.track = 0
    /\ player.next = 0

============================================================================
